---- MODULE Spec2Model ----
(***************************************************************************)
(* Model of the abe_policy crate: the Policy registry (src/src/policy.rs). *)
(* A Policy is a slot counter, a capacity ceiling, the axes map and the    *)
(* attributes map; it is mutated by add_axis and rotate only.              *)
(* The AccessPolicy functions (src/src/access_policy.rs), the legacy       *)
(* conversion and the native-call boundary are applied to an input and     *)
(* leave their result in output.                                           *)
(***************************************************************************)
EXTENDS Integers, Sequences, FiniteSets, Bags, TLC

VARIABLES
    version,                  \* Policy.version
    last_attribute_value,     \* Policy.last_attribute_value (u32)
    max_attribute_creations,  \* Policy.max_attribute_creations (u32)
    axes,                     \* Policy.axes: axis name -> PolicyAxesParameters
    attributes,               \* Policy.attributes: Attribute -> PolicyAttributesParameters
    call,                     \* the last call made on the policy, with its argument
    result,                   \* what that call returned
    allocated,                \* number of slots handed out by calls that returned Ok
    input,                    \* the argument a function is applied to
    output,                   \* what the function returned
    LAST_ERROR                \* ffi/error.rs LAST_ERROR: Option<Box<FfiError>>

vars == <<version, last_attribute_value, max_attribute_creations, axes,
          attributes, call, result, allocated, input, output, LAST_ERROR>>

policyVars == <<version, last_attribute_value, max_attribute_creations, axes,
                attributes, call, result, allocated>>

functionVars == <<input, output, LAST_ERROR>>

----------------------------------------------------------------------------
(* Bounds of the model *)

MaxCreations == 3      \* Policy::new is called with 0..MaxCreations
MaxAxisLen == 2        \* a PolicyAxis lists at most MaxAxisLen attributes

AxisNames == {"A", "B"}
AttributeNames == {"x", "y"}

----------------------------------------------------------------------------
(* Value types *)

EncryptionHint == {"Hybridized", "Classic"}

PolicyVersion == {"V1"}

\* u32 arithmetic wraps modulo 2^32. TLC's integers are 32-bit signed and
\* cannot hold 2^32, so the modulus of the model is 2^30: every counter of
\* the model is far below it, and a wrapped difference is, as in the code,
\* larger than any length or counter that occurs.
U32Modulus == 2 ^ 30

U32Sub(a, b) == (a - b) % U32Modulus

U32Add(a, b) == (a + b) % U32Modulus

\* An Attribute is the pair (axis, name)
Attribute(axis, name) == <<axis, name>>

Attributes == {Attribute(a, n) : a \in AxisNames, n \in AttributeNames}

AxisAttributePorperties == [name : AttributeNames, encryption_hint : EncryptionHint]

\* The attribute properties a caller passes in the model: "x" with either
\* hint, "y" with the Classic hint
PassedProperties ==
    {ap \in AxisAttributePorperties :
        ap.name = "x" \/ ap.encryption_hint = "Classic"}

SeqUpTo(S, n) == UNION {[1..k -> S] : k \in 0..n}

\* All PolicyAxis values a caller can pass within the bounds
PolicyAxis ==
    [name : AxisNames,
     attributes_properties : SeqUpTo(PassedProperties, MaxAxisLen),
     hierarchical : BOOLEAN]

\* HashMap::insert
Insert(map, key, value) ==
    [k \in DOMAIN map \cup {key} |-> IF k = key THEN value ELSE map[k]]

EmptyMap == [k \in {} |-> 0]

\* Option::None
None == [kind |-> "None"]

----------------------------------------------------------------------------
(* Results *)

Ok == [kind |-> "Ok", arg |-> <<>>]

CapacityOverflow == [kind |-> "CapacityOverflow", arg |-> <<>>]

ExistingPolicy(what) == [kind |-> "ExistingPolicy", arg |-> what]

AttributeNotFound(attr) == [kind |-> "AttributeNotFound", arg |-> attr]

----------------------------------------------------------------------------
(* The Policy value held in the variables *)

Self ==
    [version |-> version,
     last_attribute_value |-> last_attribute_value,
     max_attribute_creations |-> max_attribute_creations,
     axes |-> axes,
     attributes |-> attributes]

\* Policy::new
new(nb_creations) ==
    [version |-> "V1",
     last_attribute_value |-> 0,
     max_attribute_creations |-> nb_creations,
     axes |-> EmptyMap,
     attributes |-> EmptyMap]

\* Policy::remaining_attribute_creations
remaining_attribute_creations(p) ==
    U32Sub(p.max_attribute_creations, p.last_attribute_value)

\* add_axis_loop taking the slot of an attribute before the counter is
\* incremented
RECURSIVE add_axis_loop_SlotBeforeIncrement(_, _, _, _)
add_axis_loop_SlotBeforeIncrement(p, axis, i, axis_attributes) ==
    IF i > Len(axis.attributes_properties)
    THEN [policy |-> [p EXCEPT !.axes =
                        Insert(p.axes, axis.name,
                               [attribute_names |-> axis_attributes,
                                is_hierarchical |-> axis.hierarchical])],
          result |-> Ok]
    ELSE LET properties == axis.attributes_properties[i]
             p1 == [p EXCEPT !.last_attribute_value =
                                U32Add(p.last_attribute_value, 1)]
             attribute == Attribute(axis.name, properties.name)
         IN  IF attribute \in DOMAIN p1.attributes
             THEN [policy |-> p1, result |-> ExistingPolicy(attribute)]
             ELSE add_axis_loop_SlotBeforeIncrement(
                    [p1 EXCEPT !.attributes =
                        Insert(p1.attributes, attribute,
                               [values |-> <<p.last_attribute_value>>,
                                encryption_hint |-> properties.encryption_hint])],
                    axis, i + 1, Append(axis_attributes, properties.name))

\* The for loop of add_axis, from the i-th attribute property on, followed by
\* the insertion of the axis. An attribute already present returns early with
\* the counter already incremented and the earlier attributes inserted.
RECURSIVE add_axis_loop(_, _, _, _)
add_axis_loop(p, axis, i, axis_attributes) ==
    IF i > Len(axis.attributes_properties)
    THEN [policy |-> [p EXCEPT !.axes =
                        Insert(p.axes, axis.name,
                               [attribute_names |-> axis_attributes,
                                is_hierarchical |-> axis.hierarchical])],
          result |-> Ok]
    ELSE LET properties == axis.attributes_properties[i]
             p1 == [p EXCEPT !.last_attribute_value =
                                U32Add(p.last_attribute_value, 1)]
             attribute == Attribute(axis.name, properties.name)
         IN  IF attribute \in DOMAIN p1.attributes
             THEN [policy |-> p1, result |-> ExistingPolicy(attribute)]
             ELSE add_axis_loop(
                    [p1 EXCEPT !.attributes =
                        Insert(p1.attributes, attribute,
                               [values |-> <<p1.last_attribute_value>>,
                                encryption_hint |-> properties.encryption_hint])],
                    axis, i + 1, Append(axis_attributes, properties.name))

\* add_axis testing the axis name before the capacity
add_axis_AxisCheckFirst(p, axis) ==
    IF axis.name \in DOMAIN p.axes
    THEN [policy |-> p, result |-> ExistingPolicy(<<axis.name>>)]
    ELSE IF Len(axis.attributes_properties) > remaining_attribute_creations(p)
    THEN [policy |-> p, result |-> CapacityOverflow]
    ELSE add_axis_loop(p, axis, 1, <<>>)

\* add_axis without the test of the axis name
add_axis_NoAxisCheck(p, axis) ==
    IF Len(axis.attributes_properties) > remaining_attribute_creations(p)
    THEN [policy |-> p, result |-> CapacityOverflow]
    ELSE add_axis_loop(p, axis, 1, <<>>)

\* add_axis without the test of the capacity
add_axis_NoCapacityCheck(p, axis) ==
    IF axis.name \in DOMAIN p.axes
    THEN [policy |-> p, result |-> ExistingPolicy(<<axis.name>>)]
    ELSE add_axis_loop(p, axis, 1, <<>>)

\* Policy::add_axis
add_axis(p, axis) ==
    IF Len(axis.attributes_properties) > remaining_attribute_creations(p)
    THEN [policy |-> p, result |-> CapacityOverflow]
    ELSE IF axis.name \in DOMAIN p.axes
    THEN [policy |-> p, result |-> ExistingPolicy(<<axis.name>>)]
    ELSE add_axis_loop(p, axis, 1, <<>>)

\* rotate pushing the value of the counter before its increment
rotate_ReusesSlot(p, attr) ==
    IF p.last_attribute_value = p.max_attribute_creations
    THEN [policy |-> p, result |-> CapacityOverflow]
    ELSE IF attr \in DOMAIN p.attributes
    THEN LET last == U32Add(p.last_attribute_value, 1)
         IN  [policy |-> [p EXCEPT !.last_attribute_value = last,
                                   !.attributes[attr].values =
                                        Append(@, p.last_attribute_value)],
              result |-> Ok]
    ELSE [policy |-> p, result |-> AttributeNotFound(attr)]

\* rotate replacing the history by the new slot
rotate_DiscardsHistory(p, attr) ==
    IF p.last_attribute_value = p.max_attribute_creations
    THEN [policy |-> p, result |-> CapacityOverflow]
    ELSE IF attr \in DOMAIN p.attributes
    THEN LET last == U32Add(p.last_attribute_value, 1)
         IN  [policy |-> [p EXCEPT !.last_attribute_value = last,
                                   !.attributes[attr].values = <<last>>],
              result |-> Ok]
    ELSE [policy |-> p, result |-> AttributeNotFound(attr)]

\* rotate looking the attribute up before testing the capacity
rotate_LookupFirst(p, attr) ==
    IF attr \notin DOMAIN p.attributes
    THEN [policy |-> p, result |-> AttributeNotFound(attr)]
    ELSE IF p.last_attribute_value = p.max_attribute_creations
    THEN [policy |-> p, result |-> CapacityOverflow]
    ELSE LET last == U32Add(p.last_attribute_value, 1)
         IN  [policy |-> [p EXCEPT !.last_attribute_value = last,
                                   !.attributes[attr].values = Append(@, last)],
              result |-> Ok]

\* Policy::rotate
rotate(p, attr) ==
    IF p.last_attribute_value = p.max_attribute_creations
    THEN [policy |-> p, result |-> CapacityOverflow]
    ELSE IF attr \in DOMAIN p.attributes
    THEN LET last == U32Add(p.last_attribute_value, 1)
         IN  [policy |-> [p EXCEPT !.last_attribute_value = last,
                                   !.attributes[attr].values = Append(@, last)],
              result |-> Ok]
    ELSE [policy |-> p, result |-> AttributeNotFound(attr)]

\* Vec::iter().rev().collect()
RECURSIVE Rev(_)
Rev(s) == IF s = <<>> THEN <<>> ELSE Append(Rev(Tail(s)), Head(s))

\* Policy::attributes
attributes_list(p) == DOMAIN p.attributes

\* attribute_values without the reversal
attribute_values_NotReversed(p, attribute) ==
    IF attribute \in DOMAIN p.attributes
    THEN [kind |-> "Ok", value |-> p.attributes[attribute].values]
    ELSE [kind |-> "AttributeNotFound", value |-> attribute]

\* Policy::attribute_values
attribute_values(p, attribute) ==
    IF attribute \in DOMAIN p.attributes
    THEN [kind |-> "Ok", value |-> Rev(p.attributes[attribute].values)]
    ELSE [kind |-> "AttributeNotFound", value |-> attribute]

\* Policy::attribute_hybridization_hint
attribute_hybridization_hint(p, attribute) ==
    IF attribute \in DOMAIN p.attributes
    THEN [kind |-> "Ok", value |-> p.attributes[attribute].encryption_hint]
    ELSE [kind |-> "AttributeNotFound", value |-> attribute]

\* Policy::attribute_current_value
attribute_current_value(p, attribute) ==
    IF attribute \in DOMAIN p.attributes
    THEN LET values == p.attributes[attribute].values
         IN  [kind |-> "Ok", value |-> values[Len(values) - 1 + 1]]
    ELSE [kind |-> "AttributeNotFound", value |-> attribute]

----------------------------------------------------------------------------
(* The state machine: a caller holding one Policy *)

Store(p) ==
    /\ version' = p.version
    /\ last_attribute_value' = p.last_attribute_value
    /\ max_attribute_creations' = p.max_attribute_creations
    /\ axes' = p.axes
    /\ attributes' = p.attributes

Init ==
    \E nb_creations \in 0..MaxCreations :
        /\ version = new(nb_creations).version
        /\ last_attribute_value = new(nb_creations).last_attribute_value
        /\ max_attribute_creations = new(nb_creations).max_attribute_creations
        /\ axes = new(nb_creations).axes
        /\ attributes = new(nb_creations).attributes
        /\ call = [op |-> "new"]
        /\ result = Ok
        /\ allocated = 0
        /\ input = None
        /\ output = None
        /\ LAST_ERROR = None

\* add_axis called with this PolicyAxis. The call is recorded by its
\* operation, the axis name and the number of attributes passed.
AddAxisStep(axis) ==
    LET r == add_axis(Self, axis)
    IN  /\ Store(r.policy)
        /\ call' = [op |-> "add_axis", axis |-> axis.name,
                    len |-> Len(axis.attributes_properties)]
        /\ result' = r.result
        /\ allocated' = IF r.result = Ok
                        THEN allocated + Len(axis.attributes_properties)
                        ELSE allocated
        /\ UNCHANGED functionVars

\* rotate called with this Attribute
RotateStep(attr) ==
    LET r == rotate(Self, attr)
    IN  /\ Store(r.policy)
        /\ call' = [op |-> "rotate", attr |-> attr]
        /\ result' = r.result
        /\ allocated' = IF r.result = Ok THEN allocated + 1 ELSE allocated
        /\ UNCHANGED functionVars

\* A caller passes any PolicyAxis to add_axis
AddAxis == \E axis \in PolicyAxis : AddAxisStep(axis)

\* A caller passes any Attribute to rotate
Rotate == \E attr \in Attributes : RotateStep(attr)

Next == AddAxis \/ Rotate

Spec == Init /\ [][Next]_vars

----------------------------------------------------------------------------
(* AccessPolicy: the boolean expression over attributes and its            *)
(* enumeration against a Policy (src/src/access_policy.rs)                 *)

MaxLeaves == 3         \* an AccessPolicy passed to the enumeration has at most MaxLeaves leaves

\* The variants of enum AccessPolicy
Attr(attribute) == [node |-> "Attr", attr |-> attribute]

And(l, r) == [node |-> "And", left |-> l, right |-> r]

Or(l, r) == [node |-> "Or", left |-> l, right |-> r]

All == [node |-> "All"]

InvalidAxis(axis) == [kind |-> "InvalidAxis", arg |-> axis]

\* The for loop of the Attr case: one singleton per name of the axis, until
\* the name of the attribute is met
RECURSIVE hierarchy_loop(_, _, _, _)
hierarchy_loop(attribute_names, i, attr, res) ==
    IF i > Len(attribute_names) THEN res
    ELSE IF attribute_names[i] = attr[2] THEN res
    ELSE hierarchy_loop(attribute_names, i + 1, attr,
                        Append(res, <<Attribute(attr[1], attribute_names[i])>>))

\* and_inner_loop putting the right tuple before the left one
RECURSIVE and_inner_loop_RightFirst(_, _, _, _)
and_inner_loop_RightFirst(value_left, combinations_right, j, res) ==
    IF j > Len(combinations_right) THEN res
    ELSE and_inner_loop_RightFirst(value_left, combinations_right, j + 1,
                        Append(res, combinations_right[j] \o value_left))

\* The inner for loop of the And case
RECURSIVE and_inner_loop(_, _, _, _)
and_inner_loop(value_left, combinations_right, j, res) ==
    IF j > Len(combinations_right) THEN res
    ELSE and_inner_loop(value_left, combinations_right, j + 1,
                        Append(res, value_left \o combinations_right[j]))

\* The outer for loop of the And case
RECURSIVE and_outer_loop(_, _, _, _)
and_outer_loop(combinations_left, combinations_right, i, res) ==
    IF i > Len(combinations_left) THEN res
    ELSE and_outer_loop(combinations_left, combinations_right, i + 1,
                        and_inner_loop(combinations_left[i], combinations_right, 1, res))

\* AccessPolicy::to_attribute_combinations
RECURSIVE to_attribute_combinations(_, _, _)
to_attribute_combinations(self, policy, follow_hierarchical_axes) ==
    CASE self.node = "Attr" ->
            IF self.attr[1] \notin DOMAIN policy.axes
            THEN InvalidAxis(self.attr[1])
            ELSE LET axis_parameters == policy.axes[self.attr[1]]
                     res == <<<<self.attr>>>>
                 IN  [kind |-> "Ok",
                      value |-> IF axis_parameters.is_hierarchical
                                   /\ follow_hierarchical_axes
                                THEN hierarchy_loop(axis_parameters.attribute_names,
                                                    1, self.attr, res)
                                ELSE res]
      [] self.node = "And" ->
            LET combinations_left ==
                    to_attribute_combinations(self.left, policy, follow_hierarchical_axes)
            IN  IF combinations_left.kind # "Ok" THEN combinations_left
                ELSE LET combinations_right ==
                            to_attribute_combinations(self.right, policy,
                                                      follow_hierarchical_axes)
                     IN  IF combinations_right.kind # "Ok" THEN combinations_right
                         ELSE [kind |-> "Ok",
                               value |-> and_outer_loop(combinations_left.value,
                                                        combinations_right.value,
                                                        1, <<>>)]
      [] self.node = "Or" ->
            LET combinations_left ==
                    to_attribute_combinations(self.left, policy, follow_hierarchical_axes)
            IN  IF combinations_left.kind # "Ok" THEN combinations_left
                ELSE LET combinations_right ==
                            to_attribute_combinations(self.right, policy,
                                                      follow_hierarchical_axes)
                     IN  IF combinations_right.kind # "Ok" THEN combinations_right
                         ELSE [kind |-> "Ok",
                               value |-> combinations_left.value \o
                                         combinations_right.value]
      [] self.node = "All" -> [kind |-> "Ok", value |-> <<<<>>>>]

\* The leaves of the expressions passed to the enumeration
PassedLeaves ==
    {All, Attr(Attribute("A", "x")), Attr(Attribute("A", "z")),
     Attr(Attribute("B", "y"))}

\* The expressions with exactly n leaves
RECURSIVE ExpressionsOfSize(_)
ExpressionsOfSize(n) ==
    IF n = 1 THEN PassedLeaves
    ELSE UNION {{And(l, r) : l \in ExpressionsOfSize(k), r \in ExpressionsOfSize(n - k)}
                \cup {Or(l, r) : l \in ExpressionsOfSize(k), r \in ExpressionsOfSize(n - k)} :
                    k \in 1..(n - 1)}

PassedExpressions == UNION {ExpressionsOfSize(n) : n \in 1..MaxLeaves}

\* PolicyAxis::new with Classic hints
ClassicAxis(name, attribute_names, hierarchical) ==
    [name |-> name,
     attributes_properties |->
        [i \in 1..Len(attribute_names) |->
            [name |-> attribute_names[i], encryption_hint |-> "Classic"]],
     hierarchical |-> hierarchical]

\* The axes the enumerated policies are built from
AxesA ==
    {ClassicAxis("A", <<"x", "y", "z">>, TRUE),
     ClassicAxis("A", <<"x", "y", "z">>, FALSE),
     ClassicAxis("A", <<"z", "y">>, TRUE)}

AxesB ==
    {ClassicAxis("B", <<"y">>, FALSE),
     ClassicAxis("B", <<"x", "y">>, TRUE)}

\* The policies the expressions are enumerated against: Policy::new(100)
\* followed by add_axis of an axis A, of an axis B, of both or of none
EnumeratedPolicies ==
    {new(100)}
    \cup {add_axis(new(100), a).policy : a \in AxesA \cup AxesB}
    \cup {add_axis(add_axis(new(100), a).policy, b).policy : a \in AxesA, b \in AxesB}

\* The policy variables hold this Policy, as its constructor and add_axis left it
Holds(p) ==
    /\ version = p.version
    /\ last_attribute_value = p.last_attribute_value
    /\ max_attribute_creations = p.max_attribute_creations
    /\ axes = p.axes
    /\ attributes = p.attributes
    /\ call = [op |-> "new"]
    /\ result = Ok
    /\ allocated = p.last_attribute_value

InitCombinations ==
    /\ \E p \in EnumeratedPolicies : Holds(p)
    /\ \E ap \in PassedExpressions, f \in BOOLEAN :
          input = [access_policy |-> ap, follow_hierarchical_axes |-> f]
    /\ output = None
    /\ LAST_ERROR = None

\* to_attribute_combinations applied to the input
Enumerate ==
    /\ output = None
    /\ output' = to_attribute_combinations(input.access_policy, Self,
                                           input.follow_hierarchical_axes)
    /\ UNCHANGED <<policyVars, input, LAST_ERROR>>

NextCombinations == Enumerate

SpecCombinations == InitCombinations /\ [][NextCombinations]_vars

----------------------------------------------------------------------------
(* The textual parser of AccessPolicy. A string is the sequence of its     *)
(* characters; positions are counted from 0 as in the code.                *)

Some(v) == [kind |-> "Some", value |-> v]

InvalidBooleanExpression == [kind |-> "InvalidBooleanExpression"]

UnsupportedOperator(operator) == [kind |-> "UnsupportedOperator", arg |-> operator]

OPERATOR_SIZE == 2

\* s[from..to]
Slice(s, from, to) == SubSeq(s, from + 1, to)

\* s[from..]
SliceFrom(s, from) == SubSeq(s, from + 1, Len(s))

\* pat occurs in s at position i
OccursAt(s, pat, i) ==
    /\ i + Len(pat) <= Len(s)
    /\ Slice(s, i, i + Len(pat)) = pat

\* str::find: the position of the first occurrence
find(s, pat) ==
    IF \E i \in 0..Len(s) : OccursAt(s, pat, i)
    THEN Some(CHOOSE i \in 0..Len(s) :
                /\ OccursAt(s, pat, i)
                /\ \A j \in 0..(i - 1) : ~OccursAt(s, pat, j))
    ELSE None

\* str::contains
contains(s, pat) == find(s, pat) # None

\* str::split: the pieces between the occurrences of the separator, found
\* from left to right without overlap
RECURSIVE split(_, _)
split(s, separator) ==
    LET at == find(s, separator)
    IN  IF at = None THEN <<s>>
        ELSE <<Slice(s, 0, at.value)>> \o
             split(SliceFrom(s, at.value + Len(separator)), separator)

\* str::trim_start and str::trim_end, the blank of the model being the space
RECURSIVE trim_start(_)
trim_start(s) ==
    IF s # <<>> /\ Head(s) = " " THEN trim_start(Tail(s)) ELSE s

RECURSIVE trim_end(_)
trim_end(s) ==
    IF s # <<>> /\ s[Len(s)] = " " THEN trim_end(SubSeq(s, 1, Len(s) - 1)) ELSE s

\* str::trim
trim(s) == trim_end(trim_start(s))

\* The for loop of trim_closure over the trimmed pieces
RECURSIVE trim_closure_loop(_, _, _, _)
trim_closure_loop(expression, separator, i, expression_chars) ==
    IF i >= Len(expression) THEN expression_chars
    ELSE LET piece == expression[i + 1]
         IN  trim_closure_loop(expression, separator, i + 1,
                IF i = 0 /\ piece = <<>>
                THEN expression_chars \o separator
                ELSE IF i # Len(expression) - 1
                THEN expression_chars \o piece \o separator
                ELSE expression_chars \o piece)

\* The closure trim_closure of sanitize_spaces
trim_closure(expr, separator) ==
    LET pieces == split(expr, separator)
        expression == [i \in 1..Len(pieces) |-> trim(pieces[i])]
    IN  trim_closure_loop(expression, separator, 0, <<>>)

\* AccessPolicy::sanitize_spaces
sanitize_spaces(boolean_expression) ==
    trim_closure(
      trim_closure(
        trim_closure(
          trim_closure(
            trim_closure(boolean_expression, <<"(">>),
            <<")">>),
          <<"|", "|">>),
        <<"&", "&">>),
      <<":", ":">>)

\* The for loop of find_next_parenthesis
RECURSIVE find_next_parenthesis_loop(_, _, _)
find_next_parenthesis_loop(boolean_expression, index, count) ==
    IF index >= Len(boolean_expression) THEN None
    ELSE LET c == boolean_expression[index + 1]
             count1 == IF c = "(" THEN count + 1
                       ELSE IF c = ")" THEN count - 1
                       ELSE count
         IN  IF count1 < 0 THEN Some(index)
             ELSE find_next_parenthesis_loop(boolean_expression, index + 1, count1)

\* AccessPolicy::find_next_parenthesis
find_next_parenthesis(boolean_expression) ==
    LET right_closing_parenthesis ==
            find_next_parenthesis_loop(boolean_expression, 0, 0)
    IN  IF right_closing_parenthesis = None
        THEN InvalidBooleanExpression
        ELSE [kind |-> "Ok", value |-> right_closing_parenthesis.value]

\* AccessPolicy::decompose_expression
decompose_expression(boolean_expression, split_position) ==
    IF split_position > Len(boolean_expression) THEN InvalidBooleanExpression
    ELSE LET left_part == Slice(boolean_expression, 0, split_position)
         IN  IF split_position = Len(boolean_expression)
             THEN [kind |-> "Ok", left_part |-> left_part,
                   operator |-> None, right_part |-> None]
             ELSE LET next_char == boolean_expression[split_position + 1]
                      split_position1 == IF next_char = ")"
                                         THEN split_position + 1
                                         ELSE split_position
                  IN  IF split_position1 = Len(boolean_expression)
                      THEN [kind |-> "Ok", left_part |-> left_part,
                            operator |-> None, right_part |-> None]
                      ELSE IF split_position1 + OPERATOR_SIZE > Len(boolean_expression)
                      THEN InvalidBooleanExpression
                      ELSE [kind |-> "Ok", left_part |-> left_part,
                            operator |-> Some(Slice(boolean_expression, split_position1,
                                                    split_position1 + OPERATOR_SIZE)),
                            right_part |-> Some(SliceFrom(boolean_expression,
                                                    split_position1 + OPERATOR_SIZE))]

\* AccessPolicy::from_boolean_expression
RECURSIVE from_boolean_expression(_)
\* The end of both branches: no operator parses the left part alone; else
\* both parts are parsed, then the operator is matched
combine(parts) ==
    IF parts.operator = None
    THEN from_boolean_expression(parts.left_part)
    ELSE LET ap1 == from_boolean_expression(parts.left_part)
         IN  IF ap1.kind # "Ok" THEN ap1
             ELSE LET ap2 == from_boolean_expression(parts.right_part.value)
                  IN  IF ap2.kind # "Ok" THEN ap2
                      ELSE IF parts.operator.value = <<"&", "&">>
                      THEN [kind |-> "Ok", value |-> And(ap1.value, ap2.value)]
                      ELSE IF parts.operator.value = <<"|", "|">>
                      THEN [kind |-> "Ok", value |-> Or(ap1.value, ap2.value)]
                      ELSE UnsupportedOperator(parts.operator.value)

from_boolean_expression(text) ==
    LET boolean_expression == sanitize_spaces(text)
    IN  IF ~contains(boolean_expression, <<":", ":">>)
        THEN InvalidBooleanExpression
        ELSE IF Head(boolean_expression) = "("
        THEN LET inner == SliceFrom(boolean_expression, 1)
             IN  IF ~contains(inner, <<")">>)
                 THEN InvalidBooleanExpression
                 ELSE LET matching_closing_parenthesis == find_next_parenthesis(inner)
                      IN  IF matching_closing_parenthesis.kind # "Ok"
                          THEN matching_closing_parenthesis
                          ELSE LET parts == decompose_expression(
                                              inner, matching_closing_parenthesis.value)
                               IN  IF parts.kind # "Ok" THEN parts
                                   ELSE combine(parts)
        ELSE LET or_position == find(boolean_expression, <<"|", "|">>)
                 and_position == find(boolean_expression, <<"&", "&">>)
                 position ==
                    IF or_position = None /\ and_position = None THEN 0
                    ELSE IF or_position = None THEN and_position.value
                    ELSE IF and_position = None THEN or_position.value
                    ELSE IF or_position.value < and_position.value
                         THEN or_position.value ELSE and_position.value
             IN  IF position = 0
                 THEN LET attribute_vec == split(boolean_expression, <<":", ":">>)
                      IN  IF Len(attribute_vec) # 2
                             \/ attribute_vec[1] = <<>>
                             \/ attribute_vec[2] = <<>>
                          THEN InvalidBooleanExpression
                          ELSE [kind |-> "Ok",
                                value |-> Attr(Attribute(attribute_vec[1],
                                                         attribute_vec[2]))]
                 ELSE LET parts == decompose_expression(boolean_expression, position)
                      IN  IF parts.kind # "Ok" THEN parts
                          ELSE combine(parts)

\* The string made of the given pieces in a row
RECURSIVE Concat(_)
Concat(pieces) ==
    IF pieces = <<>> THEN <<>> ELSE Head(pieces) \o Concat(Tail(pieces))

\* The strings made of at most n of the given tokens
TokenStrings(tokens, n) == {Concat(ts) : ts \in SeqUpTo(tokens, n)}

MaxTokens == 6

\* Two literals, the two operators and the parentheses
ExpressionTokens ==
    {<<"a", ":", ":", "x">>, <<"b", ":", ":", "y">>,
     <<"&", "&">>, <<"|", "|">>, <<"(">>, <<")">>}

\* The texts passed to the parser
PassedTexts(tokens, n) == TokenStrings(tokens, n)

InitParser ==
    /\ Holds(new(MaxCreations))
    /\ input \in PassedTexts(ExpressionTokens, MaxTokens)
    /\ output = None
    /\ LAST_ERROR = None

\* from_boolean_expression applied to the input
Parse ==
    /\ output = None
    /\ output' = from_boolean_expression(input)
    /\ UNCHANGED <<policyVars, input, LAST_ERROR>>

NextParser == Parse

SpecParser == InitParser /\ [][NextParser]_vars

MaxSpacedTokens == 6

\* A literal, a name with an inner space, the space, the separators and a
\* lone ampersand
SpacedTokens ==
    {<<"a", ":", ":", "x">>, <<"b", " ", "c">>, <<" ">>,
     <<"&", "&">>, <<"(">>, <<")">>, <<":", ":">>, <<"&">>}

Department == <<"D", "e", "p", "a", "r", "t", "m", "e", "n", "t">>

MKG == <<"M", "K", "G">>

Country == <<"C", "o", "u", "n", "t", "r", "y">>

France == <<"F", "r", "a", "n", "c", "e">>

Spain == <<"S", "p", "a", "i", "n">>

\* 'Department::   MKG && (   Country::France || Country::Spain)'
SpacedExample ==
    Concat(<<Department, <<":", ":", " ", " ", " ">>, MKG,
             <<" ", "&", "&", " ", "(", " ", " ", " ">>,
             Country, <<":", ":">>, France, <<" ", "|", "|", " ">>,
             Country, <<":", ":">>, Spain, <<")">>>>)

InitSanitize ==
    /\ Holds(new(MaxCreations))
    /\ input \in PassedTexts(SpacedTokens, MaxSpacedTokens) \cup {SpacedExample}
    /\ output = None
    /\ LAST_ERROR = None

NextSanitize == Parse

SpecSanitize == InitSanitize /\ [][NextSanitize]_vars

----------------------------------------------------------------------------
(* AccessPolicy::from_axes *)

MissingAttribute(item, axis_name) ==
    [kind |-> "MissingAttribute", item |-> item, axis_name |-> axis_name]

MissingAxis == [kind |-> "MissingAxis"]

bitand(self, rhs) == And(self, rhs)

bitor(self, rhs) == Or(self, rhs)

\* Iterator::reduce with BitOr::bitor over the literals of the listed names,
\* from the i-th one on, acc holding the fold of the ones before
RECURSIVE reduce_bitor(_, _, _, _)
reduce_bitor(axis, names, i, acc) ==
    IF i > Len(names) THEN acc
    ELSE reduce_bitor(axis, names, i + 1,
                      bitor(acc, Attr(Attribute(axis, names[i]))))

\* Iterator::reduce with BitAnd::bitand
RECURSIVE reduce_bitand(_, _, _)
reduce_bitand(access_policies, i, acc) ==
    IF i > Len(access_policies) THEN acc
    ELSE reduce_bitand(access_policies, i + 1, bitand(acc, access_policies[i]))

\* from_axes_loop folding the attributes of an axis with BitAnd, as the comment
\* above the function has it
RECURSIVE from_axes_loop_AttributesAnded(_, _, _, _)
from_axes_loop_AttributesAnded(axes_attributes, order, i, access_policies) ==
    IF i > Len(order) THEN [kind |-> "Ok", value |-> access_policies]
    ELSE LET axis == order[i]
             listed == axes_attributes[axis]
         IN  IF listed = <<>> THEN MissingAttribute(None, Some(axis))
             ELSE from_axes_loop_AttributesAnded(axes_attributes, order, i + 1,
                    Append(access_policies,
                           reduce_bitand(
                              [k \in 1..Len(listed) |-> Attr(Attribute(axis, listed[k]))],
                              2, Attr(Attribute(axis, listed[1])))))

\* The for loop of from_axes, the map being iterated in the given order
RECURSIVE from_axes_loop(_, _, _, _)
from_axes_loop(axes_attributes, order, i, access_policies) ==
    IF i > Len(order) THEN [kind |-> "Ok", value |-> access_policies]
    ELSE LET axis == order[i]
             listed == axes_attributes[axis]
         IN  IF listed = <<>> THEN MissingAttribute(None, Some(axis))
             ELSE from_axes_loop(axes_attributes, order, i + 1,
                    Append(access_policies,
                           reduce_bitor(axis, listed, 2,
                                        Attr(Attribute(axis, listed[1])))))

\* AccessPolicy::from_axes; order is the order in which the HashMap yields its
\* keys
from_axes(axes_attributes, order) ==
    LET access_policies == from_axes_loop(axes_attributes, order, 1, <<>>)
    IN  IF access_policies.kind # "Ok" THEN access_policies
        ELSE IF access_policies.value = <<>> THEN MissingAxis
        ELSE [kind |-> "Ok",
              value |-> reduce_bitand(access_policies.value, 2,
                                      access_policies.value[1])]

MaxListed == 2

MapAxes == {"Department", "Level", "Country"}

MapNames == {"HR", "FIN", "level_2"}

\* The maps from axis names to lists of attribute names
PassedMaps ==
    UNION {[keys -> SeqUpTo(MapNames, MaxListed)] : keys \in SUBSET MapAxes}

\* The orders in which the keys can come
Orders(keys) ==
    {order \in [1..Cardinality(keys) -> keys] :
        \A i, j \in 1..Cardinality(keys) : i # j => order[i] # order[j]}

InitFromAxes ==
    /\ Holds(new(MaxCreations))
    /\ input \in PassedMaps
    /\ output = None
    /\ LAST_ERROR = None

FromAxes ==
    /\ output = None
    /\ \E order \in Orders(DOMAIN input) : output' = from_axes(input, order)
    /\ UNCHANGED <<policyVars, input, LAST_ERROR>>

NextFromAxes == FromAxes

SpecFromAxes == InitFromAxes /\ [][NextFromAxes]_vars

----------------------------------------------------------------------------
(* Equality of AccessPolicy *)

\* AccessPolicy::to_u32: the value and the mapping as the call leaves it. The
\* expressions of the bounds stay far below the overflow of u32.
RECURSIVE to_u32(_, _)
to_u32(self, attribute_mapping) ==
    CASE self.node = "Attr" ->
            IF self.attr \in DOMAIN attribute_mapping
            THEN [value |-> attribute_mapping[self.attr],
                  attribute_mapping |-> attribute_mapping]
            ELSE LET max == Cardinality(DOMAIN attribute_mapping) + 1
                 IN  [value |-> max,
                      attribute_mapping |-> Insert(attribute_mapping, self.attr, max)]
      [] self.node = "And" ->
            LET l == to_u32(self.left, attribute_mapping)
                r == to_u32(self.right, l.attribute_mapping)
            IN  [value |-> l.value * r.value, attribute_mapping |-> r.attribute_mapping]
      [] self.node = "Or" ->
            LET l == to_u32(self.left, attribute_mapping)
                r == to_u32(self.right, l.attribute_mapping)
            IN  [value |-> l.value + r.value, attribute_mapping |-> r.attribute_mapping]
      [] self.node = "All" -> [value |-> 0, attribute_mapping |-> attribute_mapping]

\* AccessPolicy::_attributes
RECURSIVE _attributes(_)
_attributes(self) ==
    CASE self.node = "Attr" -> <<self.attr>>
      [] self.node \in {"And", "Or"} -> _attributes(self.left) \o _attributes(self.right)
      [] self.node = "All" -> <<>>

\* The total order of Attribute: sorted vectors are compared for equality
\* only, which does not depend on the order chosen
AttributeRank ==
    LET compared == {leaf.attr : leaf \in PassedLeaves \ {All}}
    IN  CHOOSE rank \in [compared -> 1..Cardinality(compared)] :
            \A a, b \in compared : a # b => rank[a] # rank[b]

\* The vector v with a put in its place
RECURSIVE SortedInsert(_, _)
SortedInsert(v, a) ==
    IF v = <<>> THEN <<a>>
    ELSE IF AttributeRank[a] <= AttributeRank[Head(v)] THEN <<a>> \o v
    ELSE <<Head(v)>> \o SortedInsert(Tail(v), a)

\* Vec::sort
RECURSIVE sort(_)
sort(v) == IF v = <<>> THEN <<>> ELSE SortedInsert(sort(Tail(v)), Head(v))

\* AccessPolicy::attributes
sorted_attributes(self) == sort(_attributes(self))

\* PartialEq::eq
eq(self, other) ==
    LET left_to_u32 == to_u32(self, EmptyMap)
        right_to_u32 == to_u32(other, left_to_u32.attribute_mapping)
    IN  IF left_to_u32.value # right_to_u32.value THEN FALSE
        ELSE sorted_attributes(self) = sorted_attributes(other)

InitEquality ==
    /\ Holds(new(MaxCreations))
    /\ \E x \in PassedExpressions, y \in PassedExpressions :
          input = [self |-> x, other |-> y]
    /\ output = None
    /\ LAST_ERROR = None

\* self == other
Compare ==
    /\ output = None
    /\ output' = [kind |-> "bool", value |-> eq(input.self, input.other)]
    /\ UNCHANGED <<policyVars, input, LAST_ERROR>>

NextEquality == Compare

SpecEquality == InitEquality /\ [][NextEquality]_vars

----------------------------------------------------------------------------
(* Policy::parse_and_convert. The bytes are the JSON object they hold: a   *)
(* function from the member names present to their values. The derived     *)
(* Deserialize of a struct ignores unknown members, fails on a missing     *)
(* member and fails on a member of another type.                           *)

\* A JSON array of numbers, as the legacy schema has for an attribute
JsonArray(items) == [json |-> "array", items |-> items]

\* A JSON object {"values": .., "encryption_hint": ..}, as the current schema
\* has for an attribute
JsonObject(values, encryption_hint) ==
    [json |-> "object", values |-> values, encryption_hint |-> encryption_hint]

\* A JSON value that is neither
JsonString == [json |-> "string"]

\* A serde_json::Error of the decode into the given type
SerdeError(schema, cause) == [schema |-> schema, cause |-> cause]

DeserializationError(e) == [kind |-> "DeserializationError", arg |-> e]

\* The members of struct Policy and of struct LegacyPolicy, in order
PolicyMembers ==
    <<"version", "last_attribute_value", "max_attribute_creations", "axes", "attributes">>

LegacyPolicyMembers ==
    <<"last_attribute_value", "max_attribute_creations", "axes", "attributes">>

\* The members of the list that the bytes do not hold
Missing(members, bytes) == SelectSeq(members, LAMBDA member : member \notin DOMAIN bytes)

\* serde_json::from_slice::<Policy>
from_slice_Policy(bytes) ==
    IF "version" \in DOMAIN bytes /\ bytes["version"] \notin PolicyVersion
    THEN [kind |-> "Err", error |-> SerdeError("Policy", "unknown variant")]
    ELSE IF "attributes" \in DOMAIN bytes
            /\ \E a \in DOMAIN bytes["attributes"] : bytes["attributes"][a].json # "object"
    THEN [kind |-> "Err", error |-> SerdeError("Policy", "invalid type")]
    ELSE IF Missing(PolicyMembers, bytes) # <<>>
    THEN [kind |-> "Err",
          error |-> SerdeError("Policy", <<"missing field", Head(Missing(PolicyMembers, bytes))>>)]
    ELSE [kind |-> "Ok",
          value |-> [version |-> bytes["version"],
                     last_attribute_value |-> bytes["last_attribute_value"],
                     max_attribute_creations |-> bytes["max_attribute_creations"],
                     axes |-> bytes["axes"],
                     attributes |->
                        [a \in DOMAIN bytes["attributes"] |->
                            [values |-> bytes["attributes"][a].values,
                             encryption_hint |-> bytes["attributes"][a].encryption_hint]]]]

\* serde_json::from_slice::<LegacyPolicy>
from_slice_LegacyPolicy(bytes) ==
    IF "attributes" \in DOMAIN bytes
            /\ \E a \in DOMAIN bytes["attributes"] : bytes["attributes"][a].json # "array"
    THEN [kind |-> "Err", error |-> SerdeError("LegacyPolicy", "invalid type")]
    ELSE IF Missing(LegacyPolicyMembers, bytes) # <<>>
    THEN [kind |-> "Err",
          error |-> SerdeError("LegacyPolicy",
                               <<"missing field", Head(Missing(LegacyPolicyMembers, bytes))>>)]
    ELSE [kind |-> "Ok",
          value |-> [last_attribute_value |-> bytes["last_attribute_value"],
                     max_attribute_creations |-> bytes["max_attribute_creations"],
                     axes |-> bytes["axes"],
                     attributes |->
                        [a \in DOMAIN bytes["attributes"] |-> bytes["attributes"][a].items]]]

\* parse_and_convert returning the error of the legacy decode
parse_and_convert_LegacyError(bytes) ==
    LET current == from_slice_Policy(bytes)
        legacy == from_slice_LegacyPolicy(bytes)
    IN  IF current.kind = "Ok" THEN current
        ELSE IF legacy.kind = "Ok"
        THEN [kind |-> "Ok",
              value |-> [version |-> "V1",
                         max_attribute_creations |-> legacy.value.max_attribute_creations,
                         last_attribute_value |-> legacy.value.last_attribute_value,
                         axes |-> legacy.value.axes,
                         attributes |->
                            [name \in DOMAIN legacy.value.attributes |->
                                [values |-> legacy.value.attributes[name],
                                 encryption_hint |-> "Classic"]]]]
        ELSE DeserializationError(legacy.error)

\* Policy::parse_and_convert
parse_and_convert(bytes) ==
    LET current == from_slice_Policy(bytes)
        legacy == from_slice_LegacyPolicy(bytes)
    IN  IF current.kind = "Ok" THEN current
        ELSE IF legacy.kind = "Ok"
        THEN [kind |-> "Ok",
              value |-> [version |-> "V1",
                         max_attribute_creations |-> legacy.value.max_attribute_creations,
                         last_attribute_value |-> legacy.value.last_attribute_value,
                         axes |-> legacy.value.axes,
                         attributes |->
                            [name \in DOMAIN legacy.value.attributes |->
                                [values |-> legacy.value.attributes[name],
                                 encryption_hint |-> "Classic"]]]]
        ELSE DeserializationError(current.error)

MaxHistory == 2

\* The slot histories an attribute of the bytes can have
PassedHistories == SeqUpTo({1, 2}, MaxHistory)

\* The values an attribute of the bytes can have: of the legacy schema, of the
\* current schema or of neither
PassedAttributeValues ==
    {JsonArray(values) : values \in PassedHistories}
    \cup {JsonObject(values, hint) : values \in PassedHistories, hint \in EncryptionHint}
    \cup {JsonString}

PassedAttributeMaps ==
    UNION {[keys -> PassedAttributeValues] :
              keys \in SUBSET {Attribute("A", "x"), Attribute("A", "y")}}

PassedAxesMaps ==
    {EmptyMap,
     Insert(EmptyMap, "A", [attribute_names |-> <<"x", "y">>, is_hierarchical |-> FALSE])}

Optional(S) == {None} \cup {Some(v) : v \in S}

\* The JSON object with the members given
Bytes(members) ==
    [member \in {m \in DOMAIN members : members[m] # None} |-> members[member].value]

\* What serde_json::to_string gives for a Policy
CurrentBytes(p) ==
    [member \in {"version", "last_attribute_value", "max_attribute_creations",
                 "axes", "attributes"} |->
        IF member = "attributes"
        THEN [a \in DOMAIN p.attributes |->
                JsonObject(p.attributes[a].values, p.attributes[a].encryption_hint)]
        ELSE p[member]]

\* The same Policy written in the legacy schema: no version, no hints
LegacyBytes(p) ==
    [member \in {"last_attribute_value", "max_attribute_creations", "axes", "attributes"} |->
        IF member = "attributes"
        THEN [a \in DOMAIN p.attributes |-> JsonArray(p.attributes[a].values)]
        ELSE p[member]]

PassedBytes ==
    {Bytes([version |-> v, last_attribute_value |-> l, max_attribute_creations |-> m,
            axes |-> x, attributes |-> t]) :
        v \in Optional({"V1", "V2"}), l \in Optional({MaxHistory}),
        m \in Optional({MaxCreations}), x \in Optional(PassedAxesMaps),
        t \in Optional(PassedAttributeMaps)}
    \cup {CurrentBytes(p) : p \in EnumeratedPolicies}
    \cup {LegacyBytes(p) : p \in EnumeratedPolicies}

InitConvert ==
    /\ Holds(new(MaxCreations))
    /\ input \in PassedBytes
    /\ output = None
    /\ LAST_ERROR = None

Convert ==
    /\ output = None
    /\ output' = parse_and_convert(input)
    /\ UNCHANGED <<policyVars, input, LAST_ERROR>>

NextConvert == Convert

SpecConvert == InitConvert /\ [][NextConvert]_vars

----------------------------------------------------------------------------
(* The C interface: h_parse_boolean_access_policy *)

\* The variants of enum FfiError
NullPointer(msg) == [kind |-> "NullPointer", msg |-> msg]

Generic(msg) == [kind |-> "Generic", msg |-> msg]

\* A null pointer; a pointer to memory is Some of what the memory holds
Null == [kind |-> "Null"]

\* serde_json::to_vec of an AccessPolicy: the bytes of the JSON text, an
\* Attribute being written as the string "axis::name"
RECURSIVE to_vec(_)
to_vec(access_policy) ==
    CASE access_policy.node = "Attr" ->
            <<"{", "\"", "A", "t", "t", "r", "\"", ":", "\"">> \o access_policy.attr[1] \o <<":", ":">>
                \o access_policy.attr[2] \o <<"\"", "}">>
      [] access_policy.node = "And" ->
            <<"{", "\"", "A", "n", "d", "\"", ":", "[">> \o to_vec(access_policy.left) \o <<",">>
                \o to_vec(access_policy.right) \o <<"]", "}">>
      [] access_policy.node = "Or" ->
            <<"{", "\"", "O", "r", "\"", ":", "[">> \o to_vec(access_policy.left) \o <<",">>
                \o to_vec(access_policy.right) \o <<"]", "}">>
      [] access_policy.node = "All" -> <<"\"", "A", "l", "l", "\"">>

\* copy_from_slice on the first bytes of the buffer the pointer points to
CopyFromSlice(bytes_ptr, bytes) ==
    Some([i \in 1..Len(bytes_ptr.value) |->
            IF i <= Len(bytes) THEN bytes[i] ELSE bytes_ptr.value[i]])

\* write_ffi_bytes! leaving the length as the caller gave it when the buffer
\* is too small
write_ffi_bytes_LengthKept(bytes, bytes_ptr, bytes_len, last_error) ==
    IF bytes_ptr = Null
    THEN [ret |-> 1, access_policy_ptr |-> bytes_ptr, access_policy_len |-> bytes_len,
          LAST_ERROR |-> Some(NullPointer("pointer should point to pre-allocated memory"))]
    ELSE IF bytes_len < Len(bytes)
    THEN [ret |-> Len(bytes), access_policy_ptr |-> bytes_ptr,
          access_policy_len |-> bytes_len,
          LAST_ERROR |-> Some(Generic([need |-> Len(bytes), allocated |-> bytes_len]))]
    ELSE [ret |-> 0, access_policy_ptr |-> CopyFromSlice(bytes_ptr, bytes),
          access_policy_len |-> Len(bytes), LAST_ERROR |-> last_error]

\* write_ffi_bytes! on the access policy buffer, followed by the final 0 of
\* the function when the macro does not return
write_ffi_bytes(bytes, bytes_ptr, bytes_len, last_error) ==
    IF bytes_ptr = Null
    THEN [ret |-> 1, access_policy_ptr |-> bytes_ptr, access_policy_len |-> bytes_len,
          LAST_ERROR |-> Some(NullPointer("pointer should point to pre-allocated memory"))]
    ELSE IF bytes_len < Len(bytes)
    THEN [ret |-> Len(bytes), access_policy_ptr |-> bytes_ptr,
          access_policy_len |-> Len(bytes),
          LAST_ERROR |-> Some(Generic([need |-> Len(bytes), allocated |-> bytes_len]))]
    ELSE [ret |-> 0, access_policy_ptr |-> CopyFromSlice(bytes_ptr, bytes),
          access_policy_len |-> Len(bytes), LAST_ERROR |-> last_error]

\* The end of h_parse_boolean_access_policy, from ffi_unwrap! of the parsed
\* expression on
serialize_to_buffer(access_policy, access_policy_ptr, access_policy_len, last_error) ==
    IF access_policy.kind # "Ok"
    THEN [ret |-> 1, access_policy_ptr |-> access_policy_ptr,
          access_policy_len |-> access_policy_len,
          LAST_ERROR |-> Some(Generic(access_policy))]
    ELSE write_ffi_bytes(to_vec(access_policy.value), access_policy_ptr,
                         access_policy_len, last_error)

\* h_parse_boolean_access_policy: the return code, the buffer, the length and
\* the last-error slot as the call leaves them
h_parse_boolean_access_policy(access_policy_ptr, access_policy_len, boolean_expression_ptr, last_error) ==
    IF boolean_expression_ptr = Null
    THEN [ret |-> 1, access_policy_ptr |-> access_policy_ptr,
          access_policy_len |-> access_policy_len,
          LAST_ERROR |-> Some(NullPointer("boolean_expression pointer should not be null"))]
    ELSE serialize_to_buffer(from_boolean_expression(boolean_expression_ptr.value),
                             access_policy_ptr, access_policy_len, last_error)

MaxFfiTokens == 3

MaxCapacity == 42

\* The expressions passed through the C interface
FfiTexts ==
    TokenStrings({<<"a", ":", ":", "x">>, <<"&", "&">>, <<"|", "|">>, <<"(">>, <<")">>},
                 MaxFfiTokens)
    \cup {SpacedExample}

\* A buffer of the given capacity, zeroed
Zeroed(capacity) == [i \in 1..capacity |-> "\\0"]

\* The buffer and the length a caller passes: the length is the capacity of
\* the buffer, or the buffer is null. The example needs 98 bytes.
PassedBuffers ==
    {[ptr |-> Some(Zeroed(capacity)), len |-> capacity] :
        capacity \in 0..MaxCapacity \cup {97, 98}}
    \cup {[ptr |-> Null, len |-> capacity] : capacity \in {-1, MaxCapacity}}

InitFfi ==
    /\ Holds(new(MaxCreations))
    /\ \E text \in Optional(FfiTexts), buffer \in PassedBuffers :
          input = [access_policy_ptr |-> buffer.ptr,
                   access_policy_len |-> buffer.len,
                   boolean_expression_ptr |-> IF text = None THEN Null ELSE text]
    /\ output = None
    /\ LAST_ERROR = None

ParseCall ==
    /\ output = None
    /\ \E returned \in {h_parse_boolean_access_policy(input.access_policy_ptr,
                                                       input.access_policy_len,
                                                       input.boolean_expression_ptr,
                                                       LAST_ERROR)} :
          /\ output' = [ret |-> returned.ret,
                        access_policy_ptr |-> returned.access_policy_ptr,
                        access_policy_len |-> returned.access_policy_len]
          /\ LAST_ERROR' = returned.LAST_ERROR
    /\ UNCHANGED <<policyVars, input>>

NextFfi == ParseCall

SpecFfi == InitFfi /\ [][NextFfi]_vars

----------------------------------------------------------------------------
(* The C interface: the last-error slot, set_error and get_last_error *)

MaxMessage == 2

MaxErrorLen == 80

\* A byte that makes a C string invalid UTF-8
InvalidByte == "\\xff"

\* The messages that the model keeps as strings, as the characters of the
\* String the macros build
Utf8(text) ==
    CASE text = "error message" -> <<"e", "r", "r", "o", "r", " ", "m", "e", "s", "s", "a", "g", "e">>
      [] text = "boolean_expression pointer should not be null" ->
            <<"b", "o", "o", "l", "e", "a", "n", "_", "e", "x", "p", "r", "e", "s", "s", "i", "o", "n", " ", "p", "o", "i", "n", "t", "e", "r", " ", "s", "h", "o", "u", "l", "d", " ", "n", "o", "t", " ", "b", "e", " ", "n", "u", "l", "l">>
      [] text = "pointer should point to pre-allocated memory" ->
            <<"a", "c", "c", "e", "s", "s", " ", "p", "o", "l", "i", "c", "y", " ", "p", "o", "i", "n", "t", "e", "r", " ", "s", "h", "o", "u", "l", "d", " ", "p", "o", "i", "n", "t", " ", "t", "o", " ", "p", "r", "e", "-", "a", "l", "l", "o", "c", "a", "t", "e", "d", " ", "m", "e", "m", "o", "r", "y">>

\* The decimal digits of a natural number
RECURSIVE Decimal(_)
Decimal(n) ==
    LET digit == <<"0", "1", "2", "3", "4", "5", "6", "7", "8", "9">>[(n % 10) + 1]
    IN  IF n < 10 THEN <<digit>> ELSE Decimal(n \div 10) \o <<digit>>

\* Display of FfiError; a Generic error holds the characters of its message
to_string(err) ==
    IF err.kind = "NullPointer"
    THEN <<"I", "n", "v", "a", "l", "i", "d", " ", "N", "U", "L", "L", " ", "p", "o", "i", "n", "t", "e", "r", " ", "p", "a", "s", "s", "e", "d", " ", "f", "o", "r", ":", " ">> \o Utf8(err.msg)
    ELSE <<"F", "F", "I", " ", "e", "r", "r", "o", "r", ":", " ">> \o err.msg

\* set_last_error: the slot after the call, whatever it held before
set_last_error(err, last_error) == Some(err)

\* CStr::to_str: the position of the first byte that is not UTF-8, if any
to_str(bytes) ==
    IF \E i \in 1..Len(bytes) : bytes[i] = InvalidByte
    THEN [kind |-> "Utf8Error",
          valid_up_to |-> (CHOOSE i \in 1..Len(bytes) :
                              /\ bytes[i] = InvalidByte
                              /\ \A j \in 1..(i - 1) : bytes[j] # InvalidByte) - 1]
    ELSE [kind |-> "Ok", value |-> bytes]

\* set_error: the return code and the slot as the call leaves it
set_error(error_message_ptr, last_error) ==
    IF error_message_ptr = Null
    THEN [ret |-> 1, LAST_ERROR |-> set_last_error(NullPointer("error message"), last_error)]
    ELSE LET error_message == to_str(error_message_ptr.value)
         IN  IF error_message.kind # "Ok"
             THEN [ret |-> 1,
                   LAST_ERROR |-> set_last_error(Generic(
                       <<"f", "a", "i", "l", "e", "d", " ", "t", "o", " ", "s", "e", "t", " ", "e", "r", "r", "o", "r", " ", "m", "e", "s", "s", "a", "g", "e", ":", " ", "i", "n", "v", "a", "l", "i", "d", " ", "u", "t", "f", "-", "8", " ", "s", "e", "q", "u", "e", "n", "c", "e", " ", "o", "f", " ", "1", " ", "b", "y", "t", "e", "s", " ", "f", "r", "o", "m", " ", "i", "n", "d", "e", "x", " ">>
                           \o Decimal(error_message.valid_up_to)), last_error)]
             ELSE [ret |-> 0,
                   LAST_ERROR |-> set_last_error(Generic(error_message.value), last_error)]

\* The smaller of two integers
min(a, b) == IF a <= b THEN a ELSE b

\* The position of the first nul byte of a string, from 0, or -1
nul_position(bytes) ==
    IF \E i \in 1..Len(bytes) : bytes[i] = "\\0"
    THEN (CHOOSE i \in 1..Len(bytes) :
             /\ bytes[i] = "\\0"
             /\ \A j \in 1..(i - 1) : bytes[j] # "\\0") - 1
    ELSE -1

\* The end of get_last_error, from the taking of the slot on
take_and_copy(err, error_msg_ptr, error_len, emptied) ==
    LET string == IF err = None THEN <<>> ELSE to_string(err.value)
        actual_len == min(error_len.value - 1, Len(string))
        zeroed == [i \in 1..error_len.value |->
                      IF i <= actual_len THEN string[i] ELSE "\\0"]
    IN  IF nul_position(string) >= 0
        THEN [ret |-> 1, error_msg_ptr |-> error_msg_ptr, error_len |-> error_len,
              LAST_ERROR |-> set_last_error(Generic(
                  <<"f", "a", "i", "l", "e", "d", " ", "t", "o", " ", "c", "o", "n", "v", "e", "r", "t", " ", "e", "r", "r", "o", "r", " ", "t", "o", " ", "C", "S", "t", "r", "i", "n", "g", ":", " ", "n", "u", "l", " ", "b", "y", "t", "e", " ", "f", "o", "u", "n", "d", " ", "i", "n", " ", "p", "r", "o", "v", "i", "d", "e", "d", " ", "d", "a", "t", "a", " ", "a", "t", " ", "p", "o", "s", "i", "t", "i", "o", "n", ":", " ">>
                      \o Decimal(nul_position(string))), emptied)]
        ELSE [ret |-> 0, error_msg_ptr |-> CopyFromSlice(error_msg_ptr, zeroed),
              error_len |-> Some(actual_len), LAST_ERROR |-> emptied]

\* get_last_error reading the slot without taking what it holds
get_last_error_SlotKept(error_msg_ptr, error_len, last_error) ==
    IF error_msg_ptr = Null \/ error_len = Null
    THEN [ret |-> 1, error_msg_ptr |-> error_msg_ptr, error_len |-> error_len,
          LAST_ERROR |-> last_error]
    ELSE IF error_len.value < 1
    THEN [ret |-> 1, error_msg_ptr |-> error_msg_ptr, error_len |-> error_len,
          LAST_ERROR |-> last_error]
    ELSE take_and_copy(last_error, error_msg_ptr, error_len, last_error)

\* get_last_error: the return code, the buffer, the length and the slot as the
\* call leaves them
get_last_error(error_msg_ptr, error_len, last_error) ==
    IF error_msg_ptr = Null \/ error_len = Null
    THEN [ret |-> 1, error_msg_ptr |-> error_msg_ptr, error_len |-> error_len,
          LAST_ERROR |-> last_error]
    ELSE IF error_len.value < 1
    THEN [ret |-> 1, error_msg_ptr |-> error_msg_ptr, error_len |-> error_len,
          LAST_ERROR |-> last_error]
    ELSE take_and_copy(last_error, error_msg_ptr, error_len, None)

\* The C strings passed to set_error: a null pointer, or bytes without nul
PassedMessages ==
    {Null} \cup {Some(bytes) : bytes \in SeqUpTo({"e", "r", InvalidByte}, MaxMessage)}

\* The buffer and the length passed to get_last_error: the length is the
\* capacity of the buffer, or one of the two pointers is null
PassedErrorBuffers ==
    {[error_msg_ptr |-> Some([i \in 1..capacity |-> "?"]), error_len |-> Some(capacity)] :
        capacity \in 0..(MaxMessage + 12) \cup {MaxErrorLen}}
    \cup {[error_msg_ptr |-> Some(<<>>), error_len |-> Some(-1)],
          [error_msg_ptr |-> Null, error_len |-> Some(MaxErrorLen)],
          [error_msg_ptr |-> Some([i \in 1..MaxErrorLen |-> "?"]), error_len |-> Null]}

\* The arguments of h_parse_boolean_access_policy between two reads: the
\* buffer is large enough or null, the expression is a::x or null
PassedParseArguments ==
    {[access_policy_ptr |-> buffer, access_policy_len |-> MaxCapacity,
      boolean_expression_ptr |-> text] :
        buffer \in {Null, Some(Zeroed(MaxCapacity))},
        text \in {Null, Some(<<"a", ":", ":", "x">>)}}

\* Nothing was called yet on this thread: the slot is empty
InitLastError ==
    /\ Holds(new(MaxCreations))
    /\ input = [function |-> "none"]
    /\ output = None
    /\ LAST_ERROR = None

SetErrorCall ==
    \E error_message_ptr \in PassedMessages :
        \E returned \in {set_error(error_message_ptr, LAST_ERROR)} :
            /\ input' = [function |-> "set_error", error_message_ptr |-> error_message_ptr]
            /\ output' = [ret |-> returned.ret]
            /\ LAST_ERROR' = returned.LAST_ERROR
            /\ UNCHANGED policyVars

GetLastErrorCall ==
    \E buffer \in PassedErrorBuffers :
        \E returned \in {get_last_error(buffer.error_msg_ptr, buffer.error_len, LAST_ERROR)} :
            /\ input' = [function |-> "get_last_error", error_msg_ptr |-> buffer.error_msg_ptr,
                         error_len |-> buffer.error_len]
            /\ output' = [ret |-> returned.ret, error_msg_ptr |-> returned.error_msg_ptr,
                          error_len |-> returned.error_len]
            /\ LAST_ERROR' = returned.LAST_ERROR
            /\ UNCHANGED policyVars

ParseBooleanAccessPolicyCall ==
    \E arguments \in PassedParseArguments :
        \E returned \in {h_parse_boolean_access_policy(arguments.access_policy_ptr,
                                                        arguments.access_policy_len,
                                                        arguments.boolean_expression_ptr,
                                                        LAST_ERROR)} :
            /\ input' = [function |-> "h_parse_boolean_access_policy",
                         access_policy_ptr |-> arguments.access_policy_ptr,
                         access_policy_len |-> arguments.access_policy_len,
                         boolean_expression_ptr |-> arguments.boolean_expression_ptr]
            /\ output' = [ret |-> returned.ret, access_policy_ptr |-> returned.access_policy_ptr,
                          access_policy_len |-> returned.access_policy_len]
            /\ LAST_ERROR' = returned.LAST_ERROR
            /\ UNCHANGED policyVars

NextLastError == SetErrorCall \/ GetLastErrorCall \/ ParseBooleanAccessPolicyCall

SpecLastError == InitLastError /\ [][NextLastError]_vars

----------------------------------------------------------------------------
(* The host bindings: webassembly_policy_axis *)

MaxProperties == 2

\* The values of the host that the bindings meet
JsString(value) == [js |-> "string", value |-> value]

JsBoolean(value) == [js |-> "boolean", value |-> value]

\* An object of the host type {name: string, isHybridized: boolean}
AttributeProperty(name, isHybridized) ==
    [name |-> JsString(name), isHybridized |-> JsBoolean(isHybridized)]

\* Reflect::get of one of the two properties
Reflect_get(obj, key) == IF key = "name" THEN obj.name ELSE obj.isHybridized

\* What the unchecked conversion of a value that is no boolean can give, by
\* the js_sys and the glue the build takes: the value coerced to a number
\* and compared with zero, which is false for the names of the model as none
\* of them reads as a number, or a panic
UncheckedOutcomes == {"false", "panic"}

Panic == [kind |-> "Panic"]

\* bool::from(Boolean::from(value)): the boolean itself, else what the
\* unchecked conversion gives for this value
bool_from(value, unchecked) ==
    IF value.js = "boolean"
    THEN IF value.value THEN "true" ELSE "false"
    ELSE unchecked[value]

\* The body of the closure mapped on each host object
closure(obj, unchecked) ==
    LET name == Reflect_get(obj, "name").value
        encryption_hint == bool_from(Reflect_get(obj, "name"), unchecked)
    IN  IF encryption_hint = "panic" THEN Panic
        ELSE [kind |-> "Ok",
              value |-> [name |-> name,
                         encryption_hint |-> IF encryption_hint = "true"
                                             THEN "Hybridized" ELSE "Classic"]]

\* serde_json::to_string of a PolicyAxis: the JSON object of its three members
PolicyAxisJson(axis) ==
    [json |-> "object",
     name |-> [json |-> "string", value |-> axis.name],
     attributes_properties |->
         JsonArray([i \in DOMAIN axis.attributes_properties |->
             [json |-> "object",
              name |-> [json |-> "string", value |-> axis.attributes_properties[i].name],
              encryption_hint |-> [json |-> "string",
                                   value |-> axis.attributes_properties[i].encryption_hint]]]),
     hierarchical |-> [json |-> "boolean", value |-> axis.hierarchical]]

\* webassembly_policy_axis: the JSON text of the axis, or a panic
webassembly_policy_axis(name, attribute_properties, is_hierarchical, unchecked) ==
    LET mapped == [i \in DOMAIN attribute_properties |->
                      closure(attribute_properties[i], unchecked)]
    IN  IF \E i \in DOMAIN mapped : mapped[i] = Panic
        THEN Panic
        ELSE [kind |-> "Ok",
              value |-> PolicyAxisJson([name |-> name,
                                        attributes_properties |->
                                            [i \in DOMAIN mapped |-> mapped[i].value],
                                        hierarchical |-> is_hierarchical])]

\* The host objects passed
PassedObjects == {AttributeProperty(name, b) : name \in AttributeNames, b \in BOOLEAN}

InitAxis ==
    /\ Holds(new(MaxCreations))
    /\ \E name \in AxisNames, is_hierarchical \in BOOLEAN,
          attribute_properties \in SeqUpTo(PassedObjects, MaxProperties) :
          input = [name |-> name, attribute_properties |-> attribute_properties,
                   is_hierarchical |-> is_hierarchical]
    /\ output = None
    /\ LAST_ERROR = None

MakeAxis ==
    /\ output = None
    /\ \E unchecked \in [{JsString(name) : name \in AttributeNames} -> UncheckedOutcomes] :
          output' = webassembly_policy_axis(input.name, input.attribute_properties,
                                            input.is_hierarchical, unchecked)
    /\ UNCHANGED <<policyVars, input, LAST_ERROR>>

NextAxis == MakeAxis

SpecAxis == InitAxis /\ [][NextAxis]_vars

----------------------------------------------------------------------------
(* Notions used by the properties *)

\* The slot values stored in the history of a registered attribute
Slots(a) == {attributes[a].values[i] : i \in 1..Len(attributes[a].values)}

\* The positions (attribute, index) of all stored slot values
SlotPositions ==
    UNION {{<<a, i>> : i \in 1..Len(attributes[a].values)} :
              a \in DOMAIN attributes}

\* Number of slots held in the attribute histories
HeldSlots == Cardinality(SlotPositions)

\* The last call was add_axis / rotate and it failed
AddAxisCalled == call.op = "add_axis"

RotateCalled == call.op = "rotate"

PolicyUnchanged ==
    UNCHANGED <<version, last_attribute_value, max_attribute_creations,
                axes, attributes>>

----------------------------------------------------------------------------
(* C1: every slot value stored in a history lies in                        *)
(* 1..max_attribute_creations, and no slot value is stored twice, neither  *)
(* within one history nor in the histories of two attributes.              *)
C1_SlotsInRangeAndUnique ==
    /\ \A pos \in SlotPositions :
          attributes[pos[1]].values[pos[2]] \in 1..max_attribute_creations
    /\ \A p1, p2 \in SlotPositions :
          p1 # p2 =>
            attributes[p1[1]].values[p1[2]] # attributes[p2[1]].values[p2[2]]

\* Two attributes hold slots, one of them rotated, and a later call failed
C1_Witness ==
    /\ Cardinality(DOMAIN attributes) >= 2
    /\ \E a \in DOMAIN attributes : Len(attributes[a].values) >= 2
    /\ result.kind # "Ok"

(* C2: whenever add_axis returns an error, last_attribute_value, the axes  *)
(* map and the attributes map are as they were before the call.            *)
C2_FailedAddAxisLeavesPolicyUnchanged ==
    [][(AddAxisCalled' /\ result'.kind # "Ok") => PolicyUnchanged]_vars

(* C3 as stated: add_axis with a registered axis name fails with           *)
(* ExistingPolicy and leaves last_attribute_value unchanged, whatever the  *)
(* attribute list.                                                         *)
C3_ReAddAlwaysExistingPolicy ==
    [][(AddAxisCalled' /\ call'.axis \in DOMAIN axes) =>
          /\ result'.kind = "ExistingPolicy"
          /\ last_attribute_value' = last_attribute_value]_vars

(* C3 amended: add_axis with a registered axis name fails and leaves       *)
(* last_attribute_value unchanged; the error is CapacityOverflow when the  *)
(* attribute list is longer than the remaining capacity and                *)
(* ExistingPolicy of the axis name otherwise.                              *)
C3_ReAddFails ==
    [][(AddAxisCalled' /\ call'.axis \in DOMAIN axes) =>
          /\ result' =
                IF call'.len > max_attribute_creations - last_attribute_value
                THEN CapacityOverflow
                ELSE ExistingPolicy(<<call'.axis>>)
          /\ last_attribute_value' = last_attribute_value]_vars

\* A registered axis was passed again with a non-empty attribute list that
\* fits the remaining capacity, and the call failed with ExistingPolicy
C3_Witness ==
    /\ AddAxisCalled
    /\ call.len >= 1
    /\ call.axis \in DOMAIN axes
    /\ result = ExistingPolicy(<<call.axis>>)

(* C4: a call that asks for a slot when the successful calls have already  *)
(* allocated max_attribute_creations slots fails with CapacityOverflow,    *)
(* and no call fails with CapacityOverflow while the slots held in the     *)
(* histories plus the slots it requests are at most                        *)
(* max_attribute_creations.                                                *)
C4_CapacityOverflowExactlyWhenFull ==
    [][(AddAxisCalled' \/ RotateCalled') =>
          LET requested == IF AddAxisCalled' THEN call'.len ELSE 1
          IN  /\ (allocated = max_attribute_creations /\ requested >= 1)
                    => result' = CapacityOverflow
              /\ result' = CapacityOverflow
                    => HeldSlots + requested > max_attribute_creations]_vars

(* C5: when add_axis(axis) returns Ok on a policy whose counter is v, the  *)
(* i-th listed attribute is registered with the history <<v+i>> and its    *)
(* declared hint, the counter becomes v+n, the axis is recorded with its   *)
(* attribute names in listed order and its hierarchical flag, and every    *)
(* attribute and axis registered before the call is unchanged.             *)
C5_AddAxisOk ==
    [][(AddAxisCalled' /\ result' = Ok) =>
          \A axis \in PolicyAxis :
            AddAxisStep(axis) =>
              LET v == last_attribute_value
                  props == axis.attributes_properties
                  n == Len(props)
              IN  /\ \A i \in 1..n :
                        /\ Attribute(axis.name, props[i].name) \in DOMAIN attributes'
                        /\ attributes'[Attribute(axis.name, props[i].name)] =
                              [values |-> <<v + i>>,
                               encryption_hint |-> props[i].encryption_hint]
                  /\ last_attribute_value' = v + n
                  /\ axis.name \in DOMAIN axes'
                  /\ axes'[axis.name] =
                        [attribute_names |-> [i \in 1..n |-> props[i].name],
                         is_hierarchical |-> axis.hierarchical]
                  /\ \A a \in DOMAIN attributes :
                        a \in DOMAIN attributes' /\ attributes'[a] = attributes[a]
                  /\ \A x \in DOMAIN axes :
                        x \in DOMAIN axes' /\ axes'[x] = axes[x]]_vars

\* A second axis with two attributes was added to a policy whose counter was 1
C5_Witness ==
    /\ AddAxisCalled
    /\ result = Ok
    /\ call.len = 2
    /\ Cardinality(DOMAIN axes) = 2
    /\ last_attribute_value = 3

(* C6: after a successful rotate(a) the history of a is the previous       *)
(* history with exactly one new slot appended, the current value of a is   *)
(* strictly greater than before, and the histories and hints of all other  *)
(* attributes and the axes map are unchanged.                              *)
C6_RotateOk ==
    [][(RotateCalled' /\ result' = Ok) =>
          \A a \in Attributes :
            call'.attr = a =>
              /\ a \in DOMAIN attributes
              /\ DOMAIN attributes' = DOMAIN attributes
              /\ Len(attributes'[a].values) = Len(attributes[a].values) + 1
              /\ SubSeq(attributes'[a].values, 1, Len(attributes[a].values)) =
                    attributes[a].values
              /\ attribute_current_value(Self, a)'.value >
                    attribute_current_value(Self, a).value
              /\ \A b \in DOMAIN attributes \ {a} : attributes'[b] = attributes[b]
              /\ axes' = axes]_vars

\* An attribute was rotated while another attribute was registered
C6_Witness ==
    /\ RotateCalled
    /\ result = Ok
    /\ Cardinality(DOMAIN attributes) >= 2
    /\ Len(attributes[call.attr].values) >= 2

(* C7: rotate(a) fails with CapacityOverflow whenever                      *)
(* last_attribute_value equals max_attribute_creations, registered or not; *)
(* otherwise it fails with AttributeNotFound when a is not registered; in  *)
(* both cases the policy is unchanged.                                     *)
C7_RotateErrors ==
    [][RotateCalled' =>
          /\ last_attribute_value = max_attribute_creations
                => (result' = CapacityOverflow /\ PolicyUnchanged)
          /\ (last_attribute_value # max_attribute_creations
                /\ call'.attr \notin DOMAIN attributes)
                => (result' = AttributeNotFound(call'.attr) /\ PolicyUnchanged)]_vars

\* rotate of an unregistered attribute failed with CapacityOverflow on a full
\* policy that holds attributes
C7_Witness ==
    /\ RotateCalled
    /\ result = CapacityOverflow
    /\ call.attr \notin DOMAIN attributes
    /\ attributes # EmptyMap

(* C8: for every registered attribute the history is not empty,            *)
(* attribute_values is the history most recent first, and                  *)
(* attribute_current_value is attribute_values[0] and the maximum of the   *)
(* history.                                                                *)
C8_CurrentValueIsFirstAndMax ==
    \A a \in DOMAIN attributes :
        LET values == attributes[a].values
            listed == attribute_values(Self, a)
            current == attribute_current_value(Self, a)
        IN  /\ Len(values) >= 1
            /\ listed.kind = "Ok" /\ current.kind = "Ok"
            /\ Len(listed.value) = Len(values)
            /\ \A i \in 1..Len(values) :
                  listed.value[i] = values[Len(values) + 1 - i]
            /\ current.value = listed.value[1]
            /\ \A i \in 1..Len(values) : values[i] <= current.value

\* An attribute rotated twice
C8_Witness ==
    \E a \in DOMAIN attributes : Len(attributes[a].values) >= 3

(* C9: last_attribute_value never decreases and never exceeds              *)
(* max_attribute_creations, so remaining_attribute_creations() is          *)
(* max_attribute_creations - last_attribute_value without underflow.       *)
C9_CounterMonotoneAndBounded ==
    [][/\ last_attribute_value' >= last_attribute_value
       /\ last_attribute_value' <= max_attribute_creations'
       /\ remaining_attribute_creations(Self)' =
             max_attribute_creations' - last_attribute_value']_vars

\* The counter has reached the ceiling after a failed add_axis consumed slots
C9_Witness ==
    /\ max_attribute_creations >= 2
    /\ last_attribute_value = max_attribute_creations
    /\ remaining_attribute_creations(Self) = 0
    /\ HeldSlots < last_attribute_value

(* C10: once an axis name is registered no later call removes it or        *)
(* changes its attribute-name list or hierarchical flag, and no call       *)
(* changes the encryption hint of a registered attribute.                  *)
C10_AxesAndHintsImmutable ==
    [][/\ \A x \in DOMAIN axes :
             x \in DOMAIN axes' /\ axes'[x] = axes[x]
       /\ \A a \in DOMAIN attributes :
             /\ a \in DOMAIN attributes'
             /\ attributes'[a].encryption_hint = attributes[a].encryption_hint]_vars

\* A registered axis with a Hybridized attribute has seen a later rotate and a
\* later add_axis of another axis
C10_Witness ==
    /\ Cardinality(DOMAIN axes) = 2
    /\ \E a \in DOMAIN attributes :
          /\ attributes[a].encryption_hint = "Hybridized"
          /\ Len(attributes[a].values) >= 2

----------------------------------------------------------------------------
(* Properties of the enumeration, under SpecCombinations *)

\* The literals of an expression
RECURSIVE Literals(_)
Literals(ap) ==
    CASE ap.node = "Attr" -> {ap.attr}
      [] ap.node \in {"And", "Or"} -> Literals(ap.left) \cup Literals(ap.right)
      [] ap.node = "All" -> {}

\* The list the recursive rule gives: All is the single empty tuple, Or is
\* the list of the left followed by the list of the right, And pairs every
\* tuple of the left, in order, with every tuple of the right, in order. A
\* literal has the list the enumeration returns for it alone.
RECURSIVE RuleList(_, _, _)
RuleList(ap, policy, f) ==
    CASE ap.node = "All" -> <<<<>>>>
      [] ap.node = "Attr" -> to_attribute_combinations(ap, policy, f).value
      [] ap.node = "Or" -> RuleList(ap.left, policy, f) \o RuleList(ap.right, policy, f)
      [] ap.node = "And" ->
            LET l == RuleList(ap.left, policy, f)
                r == RuleList(ap.right, policy, f)
                n == Len(r)
            IN  [k \in 1..(Len(l) * n) |->
                    l[((k - 1) \div n) + 1] \o r[((k - 1) % n) + 1]]

Enumerated == output # None

(* C11: the enumeration fails with InvalidAxis if a literal names an axis  *)
(* absent from the policy; otherwise it returns the list of the recursive  *)
(* rule, and And(All, p) and And(p, All) enumerate as p.                   *)
C11_EnumerationFollowsRule ==
    Enumerated =>
        LET ap == input.access_policy
            f == input.follow_hierarchical_axes
        IN  IF \E a \in Literals(ap) : a[1] \notin DOMAIN axes
            THEN output.kind = "InvalidAxis"
            ELSE /\ output = [kind |-> "Ok", value |-> RuleList(ap, Self, f)]
                 /\ (ap.node = "And" /\ ap.left = All)
                        => output = to_attribute_combinations(ap.right, Self, f)
                 /\ (ap.node = "And" /\ ap.right = All)
                        => output = to_attribute_combinations(ap.left, Self, f)

\* A conjunction of a disjunction with a literal was enumerated into at
\* least six tuples
C11_Witness ==
    /\ Enumerated
    /\ output.kind = "Ok"
    /\ input.access_policy.node = "And"
    /\ input.access_policy.left.node = "Or"
    /\ input.access_policy.right.node = "Attr"
    /\ Len(output.value) >= 6

\* The names listed strictly before this name, in stored order
ListedBefore(attribute_names, name) ==
    IF \E j \in 1..Len(attribute_names) : attribute_names[j] = name
    THEN SubSeq(attribute_names, 1,
                (CHOOSE j \in 1..Len(attribute_names) :
                    /\ attribute_names[j] = name
                    /\ \A k \in 1..(j - 1) : attribute_names[k] # name) - 1)
    ELSE <<>>

(* C12: for a literal Attr(a) whose axis is registered, the enumeration    *)
(* returns [a] followed by one singleton for each name listed strictly     *)
(* before a in the stored order of the axis when follow_hierarchy is true  *)
(* and the axis is hierarchical, and exactly [[a]] otherwise.              *)
C12_LiteralEnumeration ==
    (Enumerated /\ input.access_policy.node = "Attr"
        /\ input.access_policy.attr[1] \in DOMAIN axes) =>
        LET a == input.access_policy.attr
            axis == axes[a[1]]
            before == ListedBefore(axis.attribute_names, a[2])
        IN  IF input.follow_hierarchical_axes /\ axis.is_hierarchical
            THEN output = [kind |-> "Ok",
                           value |-> <<<<a>>>> \o
                                [i \in 1..Len(before) |-> <<Attribute(a[1], before[i])>>]]
            ELSE output = [kind |-> "Ok", value |-> <<<<a>>>>]

----------------------------------------------------------------------------
(* Properties of the parser *)

Parsed == output # None

AndOperator == <<"&", "&">>

OrOperator == <<"|", "|">>

IsConnective(s) == s \in {AndOperator, OrOperator}

\* Position of the first textual occurrence of a connective, if any
FirstConnective(s) ==
    IF \E i \in 0..Len(s) : OccursAt(s, AndOperator, i) \/ OccursAt(s, OrOperator, i)
    THEN Some(CHOOSE i \in 0..Len(s) :
                /\ OccursAt(s, AndOperator, i) \/ OccursAt(s, OrOperator, i)
                /\ \A j \in 0..(i - 1) :
                      ~OccursAt(s, AndOperator, j) /\ ~OccursAt(s, OrOperator, j))
    ELSE None

\* Number of occurrences of the character c among the first n of s
RECURSIVE CountOf(_, _, _)
CountOf(s, c, n) ==
    IF n = 0 THEN 0
    ELSE CountOf(s, c, n - 1) + (IF s[n] = c THEN 1 ELSE 0)

\* The opening parenthesis at position i of s has a matching closing one at j
Matches(s, i, j) ==
    /\ i < j /\ j < Len(s)
    /\ s[i + 1] = "(" /\ s[j + 1] = ")"
    /\ CountOf(s, "(", j + 1) - CountOf(s, "(", i) =
       CountOf(s, ")", j + 1) - CountOf(s, ")", i)
    /\ \A k \in (i + 1)..(j - 1) :
          CountOf(s, "(", k + 1) - CountOf(s, "(", i) >
          CountOf(s, ")", k + 1) - CountOf(s, ")", i)

\* The tree with the given root connective over the parses of both operands,
\* or the first failure of the two
ParseOfBoth(left, connective, right) ==
    LET l == from_boolean_expression(left)
        r == from_boolean_expression(right)
    IN  IF l.kind # "Ok" THEN l
        ELSE IF r.kind # "Ok" THEN r
        ELSE [kind |-> "Ok",
              value |-> IF connective = AndOperator THEN And(l.value, r.value)
                        ELSE Or(l.value, r.value)]

(* C13: from_boolean_expression builds the tree by the first-operator      *)
(* rule. For an expression not starting with '(' the first occurrence of   *)
(* '&&' or '||' is the root, over the parse of the text before it and the  *)
(* parse of the entire remainder. For an expression starting with '(' the  *)
(* left operand is the parse of the content up to the matching ')', the    *)
(* connective following it is the root over the parse of everything after  *)
(* it, and with nothing after the ')' the bracketed parse is returned.     *)
C13_FirstOperatorRule ==
    (Parsed /\ input # <<>>) =>
        IF Head(input) # "("
        THEN \A p \in 0..Len(input) :
                FirstConnective(input) = Some(p) =>
                    output = ParseOfBoth(Slice(input, 0, p),
                                         Slice(input, p, p + 2),
                                         SliceFrom(input, p + 2))
        ELSE \A m \in 0..Len(input) :
                Matches(input, 0, m) =>
                    /\ m + 1 = Len(input) =>
                          output = from_boolean_expression(Slice(input, 1, m))
                    /\ (m + 3 <= Len(input)
                          /\ IsConnective(Slice(input, m + 1, m + 3))) =>
                          output = ParseOfBoth(Slice(input, 1, m),
                                               Slice(input, m + 1, m + 3),
                                               SliceFrom(input, m + 3))

\* The string s contains one of the reserved substrings
HasReserved(s) ==
    \E reserved \in {<<":", ":">>, AndOperator, OrOperator, <<"(">>, <<")">>} :
        contains(s, reserved)

(* C14: every literal of a successfully parsed expression has a non-empty  *)
(* axis and a non-empty name, neither containing '::', '&&', '||', '(' or  *)
(* ')'.                                                                    *)
C14_LiteralsWellShaped ==
    (Parsed /\ output.kind = "Ok") =>
        \A a \in Literals(output.value) :
            /\ a[1] # <<>> /\ a[2] # <<>>
            /\ ~HasReserved(a[1]) /\ ~HasReserved(a[2])

\* Some opening parenthesis of s has no matching closing parenthesis
UnmatchedOpening(s) ==
    \E i \in 0..(Len(s) - 1) :
        /\ s[i + 1] = "("
        /\ ~\E j \in 0..(Len(s) - 1) : Matches(s, i, j)

(* C15: from_boolean_expression fails with InvalidBooleanExpression on     *)
(* every input in which some opening parenthesis has no matching closing   *)
(* parenthesis, wherever it stands.                                        *)
C15_UnmatchedOpeningFails ==
    (Parsed /\ UnmatchedOpening(input)) => output = InvalidBooleanExpression

\* Number of characters c in a row just before position i of s
RECURSIVE RepeatedBefore(_, _, _)
RepeatedBefore(s, c, i) ==
    IF i = 0 \/ s[i] # c THEN 0 ELSE 1 + RepeatedBefore(s, c, i - 1)

\* Reading s from left to right, one of '&&', '||', '::' is read at position i
\* (in '&&&' the separator is read at the first '&', not at the second)
PairReadAt(s, i) ==
    /\ 0 <= i /\ i + 2 <= Len(s)
    /\ Slice(s, i, i + 2) \in {AndOperator, OrOperator, <<":", ":">>}
    /\ RepeatedBefore(s, s[i + 1], i) % 2 = 0

\* A separator ends just before position i of s
SeparatorEndsAt(s, i) ==
    \/ i >= 1 /\ s[i] \in {"(", ")"}
    \/ PairReadAt(s, i - 2)

\* A separator starts at position i of s
SeparatorStartsAt(s, i) ==
    \/ i < Len(s) /\ s[i + 1] \in {"(", ")"}
    \/ PairReadAt(s, i)

\* Where the run of spaces before position k of s starts
RECURSIVE RunStart(_, _)
RunStart(s, k) ==
    IF k = 0 \/ s[k] # " " THEN k ELSE RunStart(s, k - 1)

\* Where the run of spaces from position k of s ends
RECURSIVE RunEnd(_, _)
RunEnd(s, k) ==
    IF k = Len(s) \/ s[k + 1] # " " THEN k ELSE RunEnd(s, k + 1)

\* The space at position k of s is adjacent to a separator
AdjacentSpace(s, k) ==
    /\ s[k + 1] = " "
    /\ SeparatorEndsAt(s, RunStart(s, k)) \/ SeparatorStartsAt(s, RunEnd(s, k))

\* s without its n - 1 first characters and without the spaces adjacent to a
\* separator
RECURSIVE StrippedFrom(_, _)
StrippedFrom(s, n) ==
    IF n > Len(s) THEN <<>>
    ELSE (IF AdjacentSpace(s, n - 1) THEN <<>> ELSE <<s[n]>>) \o StrippedFrom(s, n + 1)

Stripped(s) == StrippedFrom(s, 1)

(* C16: an input and the same input without the spaces adjacent to '(',    *)
(* ')', '&&', '||' or '::' parse to the same tree, or fail alike; every    *)
(* literal of the tree stands in that text with the inner spaces of its    *)
(* axis and name; and the example with spaces parses to                    *)
(* And(Department::MKG, Or(Country::France, Country::Spain)).              *)
C16_AdjacentSpacesIgnored ==
    Parsed =>
        /\ output = from_boolean_expression(Stripped(input))
        /\ output.kind = "Ok" =>
              \A a \in Literals(output.value) :
                  contains(Stripped(input), a[1] \o <<":", ":">> \o a[2])
        /\ input = SpacedExample =>
              output = [kind |-> "Ok",
                        value |-> And(Attr(Attribute(Department, MKG)),
                                      Or(Attr(Attribute(Country, France)),
                                         Attr(Attribute(Country, Spain))))]

----------------------------------------------------------------------------
(* Properties of from_axes *)

\* The disjunction of the literals of the first n listed names of an axis
RECURSIVE DisjunctionOf(_, _, _)
DisjunctionOf(axis, names, n) ==
    IF n = 1 THEN Attr(Attribute(axis, names[1]))
    ELSE Or(DisjunctionOf(axis, names, n - 1), Attr(Attribute(axis, names[n])))

\* The conjunction, over the first n axes of an order, of their disjunctions
RECURSIVE ConjunctionOf(_, _, _)
ConjunctionOf(map, order, n) ==
    LET last == DisjunctionOf(order[n], map[order[n]], Len(map[order[n]]))
    IN  IF n = 1 THEN last
        ELSE And(ConjunctionOf(map, order, n - 1), last)

DoctestMap ==
    [axis \in {"Department", "Level"} |->
        IF axis = "Department" THEN <<"HR", "FIN">> ELSE <<"level_2">>]

----------------------------------------------------------------------------
(* Properties of the equality *)

Compared == output # None

\* An expression up to the grouping and the order of the operands of its
\* connectives: a connective with the bag of the operands of its chain
RECURSIVE Canonical(_)
RECURSIVE Operands(_, _)
Operands(x, connective) ==
    IF x.node = connective
    THEN Operands(x.left, connective) (+) Operands(x.right, connective)
    ELSE SetToBag({Canonical(x)})

Canonical(x) ==
    IF x.node \in {"And", "Or"}
    THEN [node |-> x.node, operands |-> Operands(x, x.node)]
    ELSE x

\* Sum of f over the set S
RECURSIVE Sum(_, _)
Sum(f, S) ==
    IF S = {} THEN 0
    ELSE LET e == CHOOSE e \in S : TRUE IN f[e] + Sum(f, S \ {e})

\* The product of two polynomials, a polynomial being the bag of its
\* monomials and a monomial the bag of its literals
Product(p, q) ==
    LET pairs == (DOMAIN p) \X (DOMAIN q)
        monomials == {pair[1] (+) pair[2] : pair \in pairs}
    IN  [m \in monomials |->
            Sum([pair \in pairs |-> p[pair[1]] * q[pair[2]]],
                {pair \in pairs : pair[1] (+) pair[2] = m})]

\* The polynomial of an expression: Or is +, And is x, All is the 0 of to_u32
RECURSIVE Polynomial(_)
Polynomial(x) ==
    CASE x.node = "Attr" -> SetToBag({SetToBag({x.attr})})
      [] x.node = "Or" -> Polynomial(x.left) (+) Polynomial(x.right)
      [] x.node = "And" -> Product(Polynomial(x.left), Polynomial(x.right))
      [] x.node = "All" -> EmptyBag

(* C18: x == y is true for two expressions that differ only by the         *)
(* grouping or the order of the operands of a connective, and whenever     *)
(* x == y is true, x and y are the same polynomial over their literals,    *)
(* Or read as + and And read as x.                                         *)
C18_EqualityIsPolynomialIdentity ==
    Compared =>
        /\ Canonical(input.self) = Canonical(input.other) => output.value
        /\ output.value => Polynomial(input.self) = Polynomial(input.other)

----------------------------------------------------------------------------
(* Properties of parse_and_convert *)

Converted == output # None

\* The Policy p with every hint set to Classic
UpToHints(p) ==
    [p EXCEPT !.attributes =
        [a \in DOMAIN p.attributes |->
            [values |-> p.attributes[a].values, encryption_hint |-> "Classic"]]]

(* C19: parse_and_convert returns the decode of the current schema when it *)
(* succeeds; when it fails and the legacy decode succeeds, the Policy has  *)
(* the last value, the maximum, the axes and the slot histories of the     *)
(* bytes, every hint Classic and the version V1, so that the legacy bytes  *)
(* of a native Policy give that Policy up to hints; when both decodes fail *)
(* the error is the one of the decode of the current schema.               *)
C19_CurrentThenLegacy ==
    Converted =>
        LET current == from_slice_Policy(input)
            legacy == from_slice_LegacyPolicy(input)
        IN  /\ current.kind = "Ok" => output = current
            /\ (current.kind # "Ok" /\ legacy.kind = "Ok") =>
                  /\ output.kind = "Ok"
                  /\ output.value.version = "V1"
                  /\ output.value.last_attribute_value = input["last_attribute_value"]
                  /\ output.value.max_attribute_creations = input["max_attribute_creations"]
                  /\ output.value.axes = input["axes"]
                  /\ DOMAIN output.value.attributes = DOMAIN input["attributes"]
                  /\ \A a \in DOMAIN input["attributes"] :
                        /\ output.value.attributes[a].values = input["attributes"][a].items
                        /\ output.value.attributes[a].encryption_hint = "Classic"
            /\ (current.kind # "Ok" /\ legacy.kind # "Ok") =>
                  output = DeserializationError(current.error)
            /\ \A p \in EnumeratedPolicies :
                  input = LegacyBytes(p) =>
                      output = [kind |-> "Ok", value |-> UpToHints(p)]

\* Legacy bytes with an attribute history have been converted
C19_Witness ==
    /\ Converted /\ output.kind = "Ok"
    /\ "version" \notin DOMAIN input
    /\ \E a \in DOMAIN output.value.attributes :
          Len(output.value.attributes[a].values) = 2

----------------------------------------------------------------------------
(* Properties of the C interface *)

ParseCalled == output # None

(* C20: for a parsable expression whose serialized AccessPolicy is n bytes *)
(* long and a buffer of the capacity given as length, the call with a      *)
(* capacity of at least n writes the n bytes, sets the length to n and     *)
(* returns 0; with a smaller capacity it leaves the buffer as it was, sets *)
(* the length to n, returns n and records a diagnostic in the last-error   *)
(* slot. The serialized example of the test is 98 bytes long.              *)
C20_BufferContract ==
    (ParseCalled /\ input.boolean_expression_ptr # Null /\ input.access_policy_ptr # Null) =>
        LET access_policy == from_boolean_expression(input.boolean_expression_ptr.value)
            bytes == to_vec(access_policy.value)
            n == Len(bytes)
        IN  access_policy.kind = "Ok" =>
                /\ input.access_policy_len >= n =>
                      /\ output.ret = 0
                      /\ output.access_policy_len = n
                      /\ SubSeq(output.access_policy_ptr.value, 1, n) = bytes
                      /\ SubSeq(output.access_policy_ptr.value, n + 1, input.access_policy_len)
                            = SubSeq(input.access_policy_ptr.value, n + 1,
                                     input.access_policy_len)
                /\ input.access_policy_len < n =>
                      /\ output.ret = n
                      /\ output.access_policy_len = n
                      /\ output.access_policy_ptr = input.access_policy_ptr
                      /\ LAST_ERROR # None
                      /\ LAST_ERROR.value.kind = "Generic"
                /\ input.boolean_expression_ptr.value = SpacedExample => n = 98

\* A buffer one byte too small for a conjunction has been passed
C20_Witness ==
    /\ ParseCalled
    /\ input.boolean_expression_ptr # Null /\ input.access_policy_ptr # Null
    /\ from_boolean_expression(input.boolean_expression_ptr.value).kind = "Ok"
    /\ from_boolean_expression(input.boolean_expression_ptr.value).value.node = "And"
    /\ output.ret = input.access_policy_len + 1
    /\ LAST_ERROR # None

----------------------------------------------------------------------------
(* The last-error slot *)

\* The call that leads to the next state reads the slot: both pointers are
\* set and the length is at least 1
ReadsSlot ==
    /\ input'.function = "get_last_error"
    /\ input'.error_msg_ptr # Null
    /\ input'.error_len # Null
    /\ input'.error_len.value >= 1

\* The call that leads to the next state is a native call that fails
FailingCall ==
    /\ input'.function \in {"set_error", "h_parse_boolean_access_policy"}
    /\ output'.ret # 0

\* The error a failing native call reports: the null pointer it was given,
\* or the bytes that are not UTF-8
ReportedBy(arguments, err) ==
    CASE arguments.function = "set_error" ->
            IF arguments.error_message_ptr = Null
            THEN err = NullPointer("error message")
            ELSE /\ err.kind = "Generic"
                 /\ to_str(arguments.error_message_ptr.value).kind = "Utf8Error"
                 /\ SubSeq(err.msg, Len(err.msg), Len(err.msg))
                        = Decimal(to_str(arguments.error_message_ptr.value).valid_up_to)
      [] arguments.function = "h_parse_boolean_access_policy" ->
            IF arguments.boolean_expression_ptr = Null
            THEN err = NullPointer("boolean_expression pointer should not be null")
            ELSE err = NullPointer("pointer should point to pre-allocated memory")

\* The message the slot holds, as get_last_error words it
UnreadMessage == IF LAST_ERROR = None THEN <<>> ELSE to_string(LAST_ERROR.value)

----------------------------------------------------------------------------
(* The host bindings *)

AxisMade == output # None /\ output.kind = "Ok"

\* The hint a host object asks for
HintAsked(obj) == IF obj.isHybridized.value THEN "Hybridized" ELSE "Classic"

\* C22: each host object {name, isHybridized} gives, at the same place, an
\* axis attribute with that name, whose hint is Hybridized exactly when
\* isHybridized is true and Classic otherwise.
C22_HintFromIsHybridized ==
    AxisMade =>
        LET made == output.value.attributes_properties.items
        IN  /\ Len(made) = Len(input.attribute_properties)
            /\ \A i \in DOMAIN made :
                  /\ made[i].name.value = input.attribute_properties[i].name.value
                  /\ made[i].encryption_hint.value = HintAsked(input.attribute_properties[i])

----------------------------------------------------------------------------
(* The attributes map against the axes map *)

\* The pairs (axis, name) that the axes map lists
ListedAttributes ==
    UNION {{Attribute(axis, axes[axis].attribute_names[i]) :
                i \in 1..Len(axes[axis].attribute_names)} : axis \in DOMAIN axes}

\* C23: in every state reached from Policy::new by add_axis and rotate
\* calls, the keys of the attributes map are exactly the pairs (axis, name)
\* with axis a key of the axes map and name in the list stored for that axis.
C23_AttributesMatchAxes == DOMAIN attributes = ListedAttributes

----------------------------------------------------------------------------
(* The attributes of the enumerated tuples *)

\* The attributes that occur in the tuples of a list
Occurring(combinations) ==
    UNION {{combinations[i][j] : j \in 1..Len(combinations[i])} :
              i \in 1..Len(combinations)}

\* C24: whenever the enumeration returns Ok, every attribute of every
\* returned tuple is a key of the attributes map of the policy, for both
\* values of follow_hierarchical_axes, also when a literal names an
\* attribute that its registered axis does not list.
C24_EnumeratedAreRegistered ==
    (Enumerated /\ output.kind = "Ok") => Occurring(output.value) \subseteq DOMAIN attributes

----------------------------------------------------------------------------
(* The symmetry of the equality *)

\* C25: AccessPolicy equality is symmetric: x == y and y == x give the same
\* result for all expressions x and y.
C25_EqualityIsSymmetric ==
    Compared => output.value = eq(input.other, input.self)

====
